---------------------------- MODULE Spec2Model ----------------------------
(***************************************************************************)
(* A model of avb/libavb/uefi_avb_ops.c: the AvbOps callbacks that the     *)
(* verified-boot engine uses to reach storage, the embedded trust key, the *)
(* rollback-index stub, the lock state and the partition GUID formatter.   *)
(*                                                                         *)
(* Machine integers are scaled down: the 64-bit types of the source        *)
(* (int64_t, uint64_t, size_t) are W bits wide here, with the same         *)
(* two's-complement conversions and the same wrap-around.                  *)
(***************************************************************************)
EXTENDS Integers, Sequences, FiniteSets, TLC

VARIABLES
    pc,          \* "idle" | "returned" | "crashed": position of the caller
    op,          \* the callback (or constructor) that ran last
    args,        \* its arguments and the environment's answers during it
    res,         \* its return value
    out,         \* what it stored through its out pointer
    xfer,        \* the ReadDisk / WriteDisk request it issued, or NoXfer
    buf,         \* bytes delivered into the caller's read buffer
    disk,        \* the storage medium, byte by byte
    guid_mem,    \* memory at guid_buf, cell by cell (also past guid_buf_size)
    heap,        \* the UEFIAvbOpsData block returned by avb_calloc, or NoBlock
    lowmem,      \* fields stored through a NULL UEFIAvbOpsData pointer
    unlocked,    \* what device_is_unlocked() answers
    avb_pk,      \* the embedded key _binary_avb_pk_start .. _binary_avb_pk_end
    gpt,         \* the partition table the locator answers from
    rb_written   \* history: last index passed to write_rollback_index per slot

vars == <<pc, op, args, res, out, xfer, buf, disk, guid_mem, heap, lowmem,
          unlocked, avb_pk, gpt, rb_written>>

----------------------------------------------------------------------------
(* Bounds of the model *)

W == 5                \* width in bits of int64_t / uint64_t / size_t here
BlockSize == 2        \* Media->BlockSize of the modelled medium
MaxKeyLen == 3        \* longest presented key and longest embedded key
MaxByte == 1          \* key and metadata bytes range over 0..MaxByte
MaxSlot == 1          \* rollback slots 0..MaxSlot
GuidSeeds == 255      \* identifiers IdentOf(0) .. IdentOf(GuidSeeds) are tried
SpareCells == 2       \* cells of guid_mem beyond the 37 the formatter needs

----------------------------------------------------------------------------
(* Machine arithmetic *)

TwoW == 2 ^ W
MaxInt == 2 ^ (W - 1) - 1
MinInt == -(2 ^ (W - 1))
UInts == 0 .. (TwoW - 1)
SInts == MinInt .. MaxInt

\* conversion to the unsigned type (uint64_t, size_t)
ToU(x) == x % TwoW
\* conversion to the signed type (int64_t)
ToS(x) == LET u == x % TwoW IN IF u > MaxInt THEN u - TwoW ELSE u
\* unary minus on int64_t. -INT64_MIN overflows; the two's-complement
\* negation every target of this loader performs gives INT64_MIN back
Neg(x) == ToS(-x)

----------------------------------------------------------------------------
(* AvbIOResult and other values *)

AVB_IO_RESULT_OK == "OK"
AVB_IO_RESULT_ERROR_OOM == "ERROR_OOM"
AVB_IO_RESULT_ERROR_IO == "ERROR_IO"
AVB_IO_RESULT_ERROR_NO_SUCH_PARTITION == "ERROR_NO_SUCH_PARTITION"
AVB_IO_RESULT_ERROR_RANGE_OUTSIDE_PARTITION == "ERROR_RANGE_OUTSIDE_PARTITION"

NULL == "NULL"
Untouched == <<>>            \* an out parameter the callee did not store to
Stored(v) == <<v>>           \* an out parameter holding v
NoXfer == [kind |-> "none"]
NoBlock == <<>>              \* no UEFIAvbOpsData block is allocated
NoArgs == [none |-> TRUE]


----------------------------------------------------------------------------
(* The partition locator and the disk transport, as the callbacks use them *)

PartNames == {"boot", "misc", "nope"}

\* the table behind gpt_get_partition_by_label: two partitions behind one
\* block of partition-table metadata; "nope" is on no disk
Layout ==
    [boot |-> [starting_lba |-> 1, ending_lba |-> 2],
     misc |-> [starting_lba |-> 3, ending_lba |-> 3]]

\* boot carries the unique GUID u, misc carries u's bytes in reverse
GptWith(u) ==
    [boot |-> [starting_lba |-> Layout.boot.starting_lba,
               ending_lba |-> Layout.boot.ending_lba,
               unique |-> u],
     misc |-> [starting_lba |-> Layout.misc.starting_lba,
               ending_lba |-> Layout.misc.ending_lba,
               unique |-> [i \in 0 .. 15 |-> u[15 - i]]]]

DiskBlocks == Layout.misc.ending_lba + 1
DiskBytes == DiskBlocks * BlockSize
BlankDisk == [a \in 0 .. (DiskBytes - 1) |-> 0]

\* gpt_get_partition_by_label(label, &gpart, LOGICAL_UNIT_USER)
gpt_get_partition_by_label(name) ==
    IF name \in DOMAIN gpt
    THEN [found |-> TRUE, part |-> gpt[name]]
    ELSE [found |-> FALSE]

\* gpart.dio->ReadDisk: fails on a device error and on a range that is not
\* on the medium
ReadDisk(d, phys, n, dev_ok) ==
    IF dev_ok /\ phys + n <= DiskBytes
    THEN [ok |-> TRUE, data |-> [i \in 1 .. n |-> d[phys + i - 1]]]
    ELSE [ok |-> FALSE, data |-> <<>>]

\* gpart.dio->WriteDisk: all of the range or nothing
WriteDisk(d, phys, data, dev_ok) ==
    IF dev_ok /\ phys + Len(data) <= DiskBytes
    THEN [ok |-> TRUE,
          disk |-> [a \in DOMAIN d |->
                      IF a >= phys /\ a < phys + Len(data)
                      THEN data[a - phys + 1] ELSE d[a]]]
    ELSE [ok |-> FALSE, disk |-> d]

\* the caller's source buffer of a write: num_bytes bytes, none of them the
\* blank medium's 0
SrcBuf(n) == [i \in 1 .. n |-> 1]

----------------------------------------------------------------------------
(* read_from_partition and write_to_partition *)

\* partition_size = (ending_lba - starting_lba + 1) * BlockSize, in uint64_t
partition_size(part) ==
    ToU(ToU(ToU(part.ending_lba - part.starting_lba) + 1) * BlockSize)

\* NormalizeOffset with the range test one off: (-offset) >= partition_size
NormalizeOffsetOffByOne(offset, psize) ==
    IF offset < 0
    THEN IF ToU(Neg(offset)) >= psize
         THEN [ok |-> FALSE, offset |-> offset]
         ELSE [ok |-> TRUE, offset |-> ToS(psize - ToU(Neg(offset)))]
    ELSE [ok |-> TRUE, offset |-> offset]

\* if (offset_from_partition < 0) { if ((-offset) > partition_size) fail;
\*     offset_from_partition = partition_size - (-offset); }
NormalizeOffset(offset, psize) ==
    IF offset < 0
    THEN IF ToU(Neg(offset)) > psize
         THEN [ok |-> FALSE, offset |-> offset]
         ELSE [ok |-> TRUE, offset |-> ToS(psize - ToU(Neg(offset)))]
    ELSE [ok |-> TRUE, offset |-> offset]

\* partition_size - offset_from_partition: uint64_t minus int64_t, computed
\* in uint64_t
BytesToEnd(psize, offset) == ToU(psize - ToU(offset))

\* if (num_bytes > partition_size - offset) *out_num_read = that; else num_bytes
ReadLength(psize, offset, num_bytes) ==
    IF num_bytes > BytesToEnd(psize, offset)
    THEN BytesToEnd(psize, offset)
    ELSE num_bytes

\* if (num_bytes > partition_size - offset) fail
WriteBeyondEnd(psize, offset, num_bytes) ==
    num_bytes > BytesToEnd(psize, offset)

\* (starting_lba * BlockSize) + offset_from_partition, in uint64_t
PhysicalOffset(part, offset) ==
    ToU(ToU(part.starting_lba * BlockSize) + ToU(offset))

IoFail(code) == [res |-> code, out |-> Untouched, xfer |-> NoXfer, buf |-> <<>>]

read_from_partition(d, label_ok, name, offset, num_bytes, dev_ok) ==
    IF ~label_ok THEN IoFail(AVB_IO_RESULT_ERROR_OOM)
    ELSE IF ~gpt_get_partition_by_label(name).found
    THEN IoFail(AVB_IO_RESULT_ERROR_NO_SUCH_PARTITION)
    ELSE
      LET part == gpt_get_partition_by_label(name).part
          psize == partition_size(part)
          norm == NormalizeOffset(offset, psize)
      IN  IF ~norm.ok THEN IoFail(AVB_IO_RESULT_ERROR_RANGE_OUTSIDE_PARTITION)
          ELSE
            LET n == ReadLength(psize, norm.offset, num_bytes)
                phys == PhysicalOffset(part, norm.offset)
                r == ReadDisk(d, phys, n, dev_ok)
                x == [kind |-> "read", offset |-> phys, len |-> n]
            IN  IF ~r.ok
                THEN [res |-> AVB_IO_RESULT_ERROR_IO, out |-> Stored(0),
                      xfer |-> x, buf |-> <<>>]
                ELSE [res |-> AVB_IO_RESULT_OK, out |-> Stored(n),
                      xfer |-> x, buf |-> r.data]

WrFail(d, code) == [res |-> code, xfer |-> NoXfer, disk |-> d]

write_to_partition(d, label_ok, name, offset, num_bytes, dev_ok) ==
    IF ~label_ok THEN WrFail(d, AVB_IO_RESULT_ERROR_OOM)
    ELSE IF ~gpt_get_partition_by_label(name).found
    THEN WrFail(d, AVB_IO_RESULT_ERROR_NO_SUCH_PARTITION)
    ELSE
      LET part == gpt_get_partition_by_label(name).part
          psize == partition_size(part)
          norm == NormalizeOffset(offset, psize)
      IN  IF ~norm.ok
          THEN WrFail(d, AVB_IO_RESULT_ERROR_RANGE_OUTSIDE_PARTITION)
          ELSE IF WriteBeyondEnd(psize, norm.offset, num_bytes)
          THEN WrFail(d, AVB_IO_RESULT_ERROR_RANGE_OUTSIDE_PARTITION)
          ELSE
            LET phys == PhysicalOffset(part, norm.offset)
                w == WriteDisk(d, phys, SrcBuf(num_bytes), dev_ok)
                x == [kind |-> "write", offset |-> phys, len |-> num_bytes]
            IN  IF ~w.ok
                THEN [res |-> AVB_IO_RESULT_ERROR_IO, xfer |-> x, disk |-> d]
                ELSE [res |-> AVB_IO_RESULT_OK, xfer |-> x, disk |-> w.disk]

\* the state the callbacks leave alone
Fixed == <<heap, lowmem, unlocked, avb_pk, gpt>>

\* a callback can be called once uefi_avb_ops_new has handed out the table
Callable == pc = "idle" /\ heap # NoBlock

ReadFromPartition(Offs, Lens) ==
    /\ Callable
    /\ \E label_ok \in BOOLEAN, name \in PartNames, offset \in Offs,
          num_bytes \in Lens, dev_ok \in BOOLEAN :
         LET r == read_from_partition(disk, label_ok, name, offset,
                                      num_bytes, dev_ok)
         IN  /\ pc' = "returned"
             /\ op' = "read_from_partition"
             /\ args' = [label_ok |-> label_ok, name |-> name,
                         offset |-> offset, num_bytes |-> num_bytes,
                         dev_ok |-> dev_ok]
             /\ res' = r.res
             /\ out' = r.out
             /\ xfer' = r.xfer
             /\ buf' = r.buf
    /\ UNCHANGED <<disk, guid_mem, rb_written>>
    /\ UNCHANGED Fixed

WriteToPartition(Offs, Lens) ==
    /\ Callable
    /\ \E label_ok \in BOOLEAN, name \in PartNames, offset \in Offs,
          num_bytes \in Lens, dev_ok \in BOOLEAN :
         LET r == write_to_partition(disk, label_ok, name, offset,
                                     num_bytes, dev_ok)
         IN  /\ pc' = "returned"
             /\ op' = "write_to_partition"
             /\ args' = [label_ok |-> label_ok, name |-> name,
                         offset |-> offset, num_bytes |-> num_bytes,
                         dev_ok |-> dev_ok]
             /\ res' = r.res
             /\ out' = Untouched
             /\ xfer' = r.xfer
             /\ buf' = <<>>
             /\ disk' = r.disk
    /\ UNCHANGED <<guid_mem, rb_written>>
    /\ UNCHANGED Fixed


----------------------------------------------------------------------------
(* validate_vbmeta_public_key *)

ByteSeqs(n) == UNION {[1 .. k -> 0 .. MaxByte] : k \in 0 .. n}

\* a (pointer, length) pair: a NULL pointer with any length, or a buffer
\* with its length
Buffers(n) ==
    {[null |-> TRUE, bytes |-> <<>>, length |-> l] : l \in 0 .. n}
    \cup {[null |-> FALSE, bytes |-> b, length |-> Len(b)] : b \in ByteSeqs(n)}

\* avb_pk_size = &_binary_avb_pk_end - &_binary_avb_pk_start
avb_pk_size == Len(avb_pk)

\* memcmp(a, b, n): 0 when the first n bytes agree, else the sign of the
\* first difference
RECURSIVE memcmp_from(_, _, _, _)
memcmp_from(a, b, i, n) ==
    IF i > n THEN 0
    ELSE IF a[i] # b[i] THEN (IF a[i] < b[i] THEN -1 ELSE 1)
    ELSE memcmp_from(a, b, i + 1, n)

memcmp(a, b, n) == memcmp_from(a, b, 1, n)

\* KeyMatches with the length test one off: public_key_length < avb_pk_size
KeyMatchesShorterOnly(key) ==
    key.length < avb_pk_size /\ memcmp(avb_pk, key.bytes, key.length) = 0

\* (public_key_length <= avb_pk_size) && !memcmp(avb_pk, public_key_data, len)
KeyMatches(key) ==
    key.length <= avb_pk_size /\ memcmp(avb_pk, key.bytes, key.length) = 0

validate_vbmeta_public_key(key, metadata, has_out) ==
    LET cleared == IF has_out THEN Stored(FALSE) ELSE Untouched
    IN  IF key.null \/ key.length = 0
        THEN [res |-> AVB_IO_RESULT_ERROR_IO, out |-> cleared]
        ELSE IF KeyMatches(key)
        THEN [res |-> AVB_IO_RESULT_OK,
              out |-> IF has_out THEN Stored(TRUE) ELSE cleared]
        ELSE [res |-> AVB_IO_RESULT_OK, out |-> cleared]

ValidateVbmetaPublicKey(Keys, Metas) ==
    /\ Callable
    /\ \E key \in Keys, metadata \in Metas, has_out \in BOOLEAN :
         LET r == validate_vbmeta_public_key(key, metadata, has_out)
         IN  /\ pc' = "returned"
             /\ op' = "validate_vbmeta_public_key"
             /\ args' = [key |-> key, metadata |-> metadata,
                         has_out |-> has_out]
             /\ res' = r.res
             /\ out' = r.out
             /\ xfer' = NoXfer
             /\ buf' = <<>>
    /\ UNCHANGED <<disk, guid_mem, rb_written>>
    /\ UNCHANGED Fixed

----------------------------------------------------------------------------
(* read_rollback_index, write_rollback_index, read_is_device_unlocked *)

Slots == 0 .. MaxSlot
RollbackIndexes == {0, 1}

\* read_rollback_index backed by a store that write_rollback_index fills
read_rollback_index_stored(slot, has_out) ==
    [res |-> AVB_IO_RESULT_OK,
     out |-> IF has_out THEN Stored(rb_written[slot]) ELSE Untouched]

read_rollback_index(slot, has_out) ==
    [res |-> AVB_IO_RESULT_OK,
     out |-> IF has_out THEN Stored(0) ELSE Untouched]

write_rollback_index(slot, index) == [res |-> AVB_IO_RESULT_OK]

read_is_device_unlocked == [res |-> AVB_IO_RESULT_OK, out |-> Stored(unlocked)]

ReadRollbackIndex ==
    /\ Callable
    /\ \E slot \in Slots, has_out \in BOOLEAN :
         LET r == read_rollback_index(slot, has_out)
         IN  /\ pc' = "returned"
             /\ op' = "read_rollback_index"
             /\ args' = [slot |-> slot, has_out |-> has_out]
             /\ res' = r.res
             /\ out' = r.out
             /\ xfer' = NoXfer
             /\ buf' = <<>>
    /\ UNCHANGED <<disk, guid_mem, rb_written>>
    /\ UNCHANGED Fixed

WriteRollbackIndex ==
    /\ Callable
    /\ \E slot \in Slots, index \in RollbackIndexes :
         LET r == write_rollback_index(slot, index)
         IN  /\ pc' = "returned"
             /\ op' = "write_rollback_index"
             /\ args' = [slot |-> slot, index |-> index]
             /\ res' = r.res
             /\ out' = Untouched
             /\ xfer' = NoXfer
             /\ buf' = <<>>
             /\ rb_written' = [rb_written EXCEPT ![slot] = index]
    /\ UNCHANGED <<disk, guid_mem>>
    /\ UNCHANGED Fixed

ReadIsDeviceUnlocked ==
    /\ Callable
    /\ LET r == read_is_device_unlocked
       IN  /\ pc' = "returned"
           /\ op' = "read_is_device_unlocked"
           /\ args' = NoArgs
           /\ res' = r.res
           /\ out' = r.out
           /\ xfer' = NoXfer
           /\ buf' = <<>>
    /\ UNCHANGED <<disk, guid_mem, rb_written>>
    /\ UNCHANGED Fixed


----------------------------------------------------------------------------
(* set_hex and get_unique_guid_for_partition *)

GuidStrSize == 37
MemCells == GuidStrSize + SpareCells
NUL == "\\0"
FreshMem == [c \in 0 .. (MemCells - 1) |-> "#"]

hex_digits ==
    <<"0", "1", "2", "3", "4", "5", "6", "7",
      "8", "9", "a", "b", "c", "d", "e", "f">>

\* set_hex with the nibbles in the other order
set_hex_low_first(mem, at, value) ==
    [mem EXCEPT ![at] = hex_digits[(value % 16) + 1],
                ![at + 1] = hex_digits[(value \div 16) + 1]]

\* buf[0] = hex_digits[value >> 4]; buf[1] = hex_digits[value & 0x0f];
set_hex(mem, at, value) ==
    [mem EXCEPT ![at] = hex_digits[(value \div 16) + 1],
                ![at + 1] = hex_digits[(value % 16) + 1]]

\* guid_buf[at] = c
set_char(mem, at, c) == [mem EXCEPT ![at] = c]

\* the stores of lines 264-284, in order
FormatGuid(mem, u) ==
    LET m01 == set_hex(mem, 0, u[3])
        m02 == set_hex(m01, 2, u[2])
        m03 == set_hex(m02, 4, u[1])
        m04 == set_hex(m03, 6, u[0])
        m05 == set_char(m04, 8, "-")
        m06 == set_hex(m05, 9, u[5])
        m07 == set_hex(m06, 11, u[4])
        m08 == set_char(m07, 13, "-")
        m09 == set_hex(m08, 14, u[7])
        m10 == set_hex(m09, 16, u[6])
        m11 == set_char(m10, 18, "-")
        m12 == set_hex(m11, 19, u[8])
        m13 == set_hex(m12, 21, u[9])
        m14 == set_char(m13, 23, "-")
        m15 == set_hex(m14, 24, u[10])
        m16 == set_hex(m15, 26, u[11])
        m17 == set_hex(m16, 28, u[12])
        m18 == set_hex(m17, 30, u[13])
        m19 == set_hex(m18, 32, u[14])
        m20 == set_hex(m19, 34, u[15])
    IN  set_char(m20, 36, NUL)

\* GuidBufTooSmall forgetting the terminator: guid_buf_size < 36
GuidBufTooSmallNoTerminator(guid_buf_size) == guid_buf_size < GuidStrSize - 1

\* if (guid_buf_size < 37)
GuidBufTooSmall(guid_buf_size) == guid_buf_size < GuidStrSize

\* what get_unique_guid_for_partition returns when the locator misses
GuidLookupFailure == AVB_IO_RESULT_ERROR_IO

get_unique_guid_for_partition(mem, label_ok, name, guid_buf_size) ==
    IF ~label_ok THEN [res |-> AVB_IO_RESULT_ERROR_OOM, mem |-> mem]
    ELSE IF ~gpt_get_partition_by_label(name).found
    THEN [res |-> GuidLookupFailure, mem |-> mem]
    ELSE IF GuidBufTooSmall(guid_buf_size)
    THEN [res |-> AVB_IO_RESULT_ERROR_IO, mem |-> mem]
    ELSE [res |-> AVB_IO_RESULT_OK,
          mem |-> FormatGuid(mem, gpt_get_partition_by_label(name).part.unique)]

GetUniqueGuidForPartition(Sizes) ==
    /\ Callable
    /\ \E label_ok \in BOOLEAN, name \in PartNames, guid_buf_size \in Sizes :
         LET r == get_unique_guid_for_partition(guid_mem, label_ok, name,
                                                guid_buf_size)
         IN  /\ pc' = "returned"
             /\ op' = "get_unique_guid_for_partition"
             /\ args' = [label_ok |-> label_ok, name |-> name,
                         guid_buf_size |-> guid_buf_size]
             /\ res' = r.res
             /\ out' = Untouched
             /\ xfer' = NoXfer
             /\ buf' = <<>>
             /\ guid_mem' = r.mem
    /\ UNCHANGED <<disk, rb_written>>
    /\ UNCHANGED Fixed

----------------------------------------------------------------------------
(* uefi_avb_ops_new and uefi_avb_ops_free *)

Callbacks ==
    {"read_from_partition", "write_to_partition",
     "validate_vbmeta_public_key", "read_rollback_index",
     "write_rollback_index", "read_is_device_unlocked",
     "get_unique_guid_for_partition"}

\* the fields lines 302-312 store
OpsFields == {"user_data", "ab_ops", "block_io", "disk_io"} \cup Callbacks

\* the block after lines 302-312
OpsData ==
    [f \in OpsFields |->
       IF f = "user_data" THEN "data"
       ELSE IF f = "ab_ops" THEN NULL
       ELSE IF f = "block_io" THEN "gparti.bio"
       ELSE IF f = "disk_io" THEN "gparti.dio"
       ELSE f]

\* what the stores of lines 302-312 do when avb_calloc returned NULL: the
\* first store faults, or all of them land in the memory at address 0 and
\* &data->ops is returned
NullStoreOutcomes == {"fault", "stored"}

uefi_avb_ops_new(root_ok, alloc_ok, null_store) ==
    IF ~root_ok
    THEN [pc |-> "returned", res |-> NULL, heap |-> NoBlock, lowmem |-> {}]
    ELSE IF alloc_ok
    THEN [pc |-> "returned", res |-> "&data->ops",
          heap |-> <<OpsData>>, lowmem |-> {}]
    ELSE IF null_store = "fault"
    THEN [pc |-> "crashed", res |-> "none", heap |-> NoBlock, lowmem |-> {}]
    ELSE [pc |-> "returned", res |-> "&((UEFIAvbOpsData*)NULL)->ops",
          heap |-> NoBlock, lowmem |-> OpsFields]

UefiAvbOpsNew ==
    /\ pc = "idle"
    /\ heap = NoBlock
    /\ \E root_ok \in BOOLEAN, alloc_ok \in BOOLEAN,
          null_store \in NullStoreOutcomes :
         LET r == uefi_avb_ops_new(root_ok, alloc_ok, null_store)
         IN  /\ pc' = r.pc
             /\ op' = "uefi_avb_ops_new"
             /\ args' = [root_ok |-> root_ok, alloc_ok |-> alloc_ok]
             /\ res' = r.res
             /\ heap' = r.heap
             /\ lowmem' = r.lowmem
    /\ out' = Untouched
    /\ xfer' = NoXfer
    /\ buf' = <<>>
    /\ UNCHANGED <<disk, guid_mem, rb_written, unlocked, avb_pk, gpt>>

\* avb_free(ops->user_data)
UefiAvbOpsFree ==
    /\ Callable
    /\ pc' = "returned"
    /\ op' = "uefi_avb_ops_free"
    /\ args' = NoArgs
    /\ res' = "void"
    /\ out' = Untouched
    /\ xfer' = NoXfer
    /\ buf' = <<>>
    /\ heap' = NoBlock
    /\ UNCHANGED <<disk, guid_mem, rb_written, lowmem, unlocked, avb_pk, gpt>>

\* the engine takes the result of a callback and is free to call the next
EngineTakesResult ==
    /\ pc = "returned"
    /\ pc' = "idle"
    /\ op' = "none"
    /\ args' = NoArgs
    /\ res' = "none"
    /\ out' = Untouched
    /\ xfer' = NoXfer
    /\ buf' = <<>>
    /\ UNCHANGED <<disk, guid_mem, rb_written>>
    /\ UNCHANGED Fixed

----------------------------------------------------------------------------
(* Inputs *)

Offsets == SInts
Lengths == UInts

\* partition unique GUIDs: over the seeds every byte position holds every
\* byte value, and the 16 bytes of one GUID are distinct
IdentOf(seed) == [i \in 0 .. 15 |-> (seed + i * 17) % 256]

\* 33 22 11 00 55 44 77 66 88 99 AA BB CC DD EE FF
ExampleIdent ==
    [i \in 0 .. 15 |->
       <<51, 34, 17, 0, 85, 68, 119, 102,
         136, 153, 170, 187, 204, 221, 238, 255>>[i + 1]]

Idents == {IdentOf(s) : s \in 0 .. GuidSeeds} \cup {ExampleIdent}

EmbeddedKeys == ByteSeqs(MaxKeyLen) \ {<<>>}
PresentedKeys == Buffers(MaxKeyLen + 1)
Metadatas == Buffers(1)

\* the inputs of the full lifecycle
FewOffsets == {-1, 0}
FewLengths == {0, 1}
FewKeys == {k \in Buffers(1) : k.length <= 1}
FewMetas == {m \in Buffers(1) : m.length = 0}
FewSizes == {GuidStrSize - 1, GuidStrSize}

InitWith(PKs, Ids, Heaps) ==
    /\ pc = "idle"
    /\ op = "none"
    /\ args = NoArgs
    /\ res = "none"
    /\ out = Untouched
    /\ xfer = NoXfer
    /\ buf = <<>>
    /\ disk = BlankDisk
    /\ guid_mem = FreshMem
    /\ heap \in Heaps
    /\ lowmem = {}
    /\ unlocked \in BOOLEAN
    /\ avb_pk \in PKs
    /\ gpt \in {GptWith(u) : u \in Ids}
    /\ rb_written = [s \in Slots |-> 0]

----------------------------------------------------------------------------
(* The whole life of the table: uefi_avb_ops_new, callbacks, uefi_avb_ops_free *)

Init == InitWith({<<1, 0>>}, {ExampleIdent}, {NoBlock})

Next ==
    \/ UefiAvbOpsNew
    \/ UefiAvbOpsFree
    \/ ReadFromPartition(FewOffsets, FewLengths)
    \/ WriteToPartition(FewOffsets, FewLengths)
    \/ ValidateVbmetaPublicKey(FewKeys, FewMetas)
    \/ ReadRollbackIndex
    \/ WriteRollbackIndex
    \/ ReadIsDeviceUnlocked
    \/ GetUniqueGuidForPartition(FewSizes)
    \/ EngineTakesResult

Spec == Init /\ [][Next]_vars

(* One partition I/O call, over every offset and length of the machine *)

InitIO == InitWith({<<1, 0>>}, {ExampleIdent}, {<<OpsData>>})

NextIO ==
    \/ ReadFromPartition(Offsets, Lengths)
    \/ WriteToPartition(Offsets, Lengths)

SpecIO == InitIO /\ [][NextIO]_vars

(* Key validation, over every embedded key and every presented key *)

InitKey == InitWith(EmbeddedKeys, {ExampleIdent}, {<<OpsData>>})

NextKey ==
    \/ ValidateVbmetaPublicKey(PresentedKeys, Metadatas)
    \/ EngineTakesResult

SpecKey == InitKey /\ [][NextKey]_vars

(* GUID formatting, over the identifiers and every buffer size *)

InitGuid == InitWith({<<1, 0>>}, Idents, {<<OpsData>>})

NextGuid ==
    \/ GetUniqueGuidForPartition(0 .. MemCells)
    \/ EngineTakesResult

SpecGuid == InitGuid /\ [][NextGuid]_vars


----------------------------------------------------------------------------
(* Properties *)

Returned(name) == pc = "returned" /\ op = name

\* the call got as far as computing partition_size
Resolved == args.label_ok /\ args.name \in DOMAIN gpt

\* the size of the resolved partition, in bytes, as a number
PartSize ==
    (gpt[args.name].ending_lba - gpt[args.name].starting_lba + 1) * BlockSize

\* the partition-relative offset the request means, as a number
EffectiveOffset ==
    IF args.offset < 0 THEN PartSize + args.offset ELSE args.offset

\* C1: a write whose effective offset plus length exceeds the partition size
\* returns RangeOutsidePartition, never reaches WriteDisk and leaves the
\* storage as it was.
C1_WriteBeyondEndRejected ==
    [][(Returned("write_to_partition")' /\ Resolved'
          /\ (EffectiveOffset + args.num_bytes > PartSize)')
       => /\ res' = AVB_IO_RESULT_ERROR_RANGE_OUTSIDE_PARTITION
          /\ xfer' = NoXfer
          /\ disk' = disk]_vars

\* reachable under SpecIO: a write through "boot" at an offset beyond its
\* size succeeded and changed a byte of "misc"
WriteLandedInNextPartition ==
    /\ Returned("write_to_partition") /\ Resolved
    /\ args.name = "boot" /\ args.offset > PartSize
    /\ res = AVB_IO_RESULT_OK
    /\ \E a \in DOMAIN disk :
         /\ a >= gpt.misc.starting_lba * BlockSize
         /\ disk[a] # BlankDisk[a]

\* reachable under SpecIO: a read at an offset beyond the partition size
\* succeeded and delivered bytes from past the partition end
ReadDeliveredBytesPastEnd ==
    /\ Returned("read_from_partition") /\ Resolved
    /\ args.offset > PartSize
    /\ res = AVB_IO_RESULT_OK
    /\ out = Stored(args.num_bytes) /\ Len(buf) > 0

\* C2: a read that reaches ReadDisk never asks for bytes past the partition
\* end, and when effective offset plus length exceeds the partition size the
\* length handed to ReadDisk, and the count reported on success, is
\* partition size minus effective offset.
C2_ReadClampedToPartition ==
    (Returned("read_from_partition") /\ Resolved /\ xfer.kind = "read")
    => /\ EffectiveOffset + xfer.len <= PartSize
       /\ (EffectiveOffset + args.num_bytes > PartSize)
          => /\ xfer.len = PartSize - EffectiveOffset
             /\ (res = AVB_IO_RESULT_OK
                 => out = Stored(PartSize - EffectiveOffset))

\* C3: a read or write at offset -k with 0 < k <= partition size has the
\* result code, the transport request (physical offset and byte count) and
\* the reported count of the same call at offset partition size - k; with
\* k > partition size it returns RangeOutsidePartition and reaches no
\* transport.
C3_NegativeOffsetNormalized ==
    ((Returned("read_from_partition") \/ Returned("write_to_partition"))
       /\ Resolved /\ args.offset < 0)
    => LET k == -args.offset
       IN  IF k > PartSize
           THEN /\ res = AVB_IO_RESULT_ERROR_RANGE_OUTSIDE_PARTITION
                /\ xfer = NoXfer
           ELSE IF op = "read_from_partition"
           THEN LET r == read_from_partition(disk, args.label_ok, args.name,
                           PartSize - k, args.num_bytes, args.dev_ok)
                IN  res = r.res /\ xfer = r.xfer /\ out = r.out /\ buf = r.buf
           ELSE LET r == write_to_partition(disk, args.label_ok, args.name,
                           PartSize - k, args.num_bytes, args.dev_ok)
                IN  res = r.res /\ xfer = r.xfer

C3_Witness ==
    /\ Returned("write_to_partition") /\ Resolved
    /\ args.offset < 0 /\ -args.offset <= PartSize
    /\ res = AVB_IO_RESULT_OK /\ xfer.kind = "write" /\ xfer.len > 0

\* C4: the trusted output is true exactly when the presented key is the
\* embedded key, byte for byte and of the same length.
C4_TrustedOnlyExactKey ==
    (Returned("validate_vbmeta_public_key") /\ args.has_out)
    => (out = Stored(TRUE)
        <=> (~args.key.null /\ args.key.bytes = avb_pk))

\* the presented key is a non-empty prefix of the embedded key
IsPrefixOfEmbedded(key) ==
    /\ key.length <= Len(avb_pk)
    /\ \A i \in 1 .. key.length : key.bytes[i] = avb_pk[i]

\* C5: an absent or zero-length key gives IOError with trusted false; any
\* other key gives OK with trusted true exactly when it is no longer than the
\* embedded key and equals it over its own length; no metadata changes the
\* result code or the trusted output.
C5_OutcomeFromKeyAlone ==
    Returned("validate_vbmeta_public_key")
    => LET key == args.key
       IN  /\ IF key.null \/ key.length = 0
              THEN /\ res = AVB_IO_RESULT_ERROR_IO
                   /\ args.has_out => out = Stored(FALSE)
              ELSE /\ res = AVB_IO_RESULT_OK
                   /\ args.has_out => out = Stored(IsPrefixOfEmbedded(key))
           /\ \A m \in Metadatas :
                LET r == validate_vbmeta_public_key(key, m, args.has_out)
                IN  r.res = res /\ r.out = out

C5_Witness ==
    /\ Returned("validate_vbmeta_public_key")
    /\ args.has_out /\ out = Stored(TRUE)
    /\ args.key.length = Len(avb_pk)
    /\ ~args.metadata.null /\ args.metadata.length > 0

\* C6: uefi_avb_ops_new either returns the table of a fully populated,
\* allocated context, or returns NULL with nothing allocated and nothing
\* stored anywhere; it does so too when the allocation fails.
C6_NewAllOrNothing ==
    (op = "uefi_avb_ops_new")
    => /\ pc = "returned"
       /\ \/ res = "&data->ops" /\ heap = <<OpsData>> /\ lowmem = {}
          \/ res = NULL /\ heap = NoBlock /\ lowmem = {}

\* C7: partition read, partition write and GUID formatting report a locator
\* miss as NoSuchPartition.
C7_LocatorMissIsNoSuchPartition ==
    ((Returned("read_from_partition") \/ Returned("write_to_partition")
        \/ Returned("get_unique_guid_for_partition"))
       /\ args.label_ok /\ args.name \notin DOMAIN gpt)
    => res = AVB_IO_RESULT_ERROR_NO_SUCH_PARTITION

HexChars == {hex_digits[i] : i \in 1 .. 16}

\* a successful call left a 36-character string and its terminator in cells
\* 0..36 and touched no cell beyond
WroteGuidString ==
    /\ \A c \in 0 .. 35 : guid_mem'[c] \in HexChars \cup {"-"}
    /\ guid_mem'[36] = NUL
    /\ \A c \in 37 .. (MemCells - 1) : guid_mem'[c] = guid_mem[c]

\* C8 as claimed: with a buffer of fewer than 37 characters the call fails
\* with IOError and no cell of the buffer changes; with 37 or more a
\* successful call writes cells 0..36, the last the terminator, and none
\* beyond.
C8_SmallBufferAlwaysIOError ==
    [][Returned("get_unique_guid_for_partition")'
       => /\ args'.guid_buf_size < 37
             => res' = AVB_IO_RESULT_ERROR_IO /\ guid_mem' = guid_mem
          /\ (args'.guid_buf_size >= 37 /\ res' = AVB_IO_RESULT_OK)
             => WroteGuidString]_vars

\* C8 as amended: with a buffer of fewer than 37 characters the call fails,
\* with OutOfMemory when the label could not be built and with IOError
\* otherwise, and no cell of the buffer changes; with 37 or more a successful
\* call writes cells 0..36, the last the terminator, and none beyond.
C8_SmallBufferFailsUntouched ==
    [][Returned("get_unique_guid_for_partition")'
       => /\ args'.guid_buf_size < 37
             => /\ res' = IF args'.label_ok
                          THEN AVB_IO_RESULT_ERROR_IO
                          ELSE AVB_IO_RESULT_ERROR_OOM
                /\ guid_mem' = guid_mem
          /\ (args'.guid_buf_size >= 37 /\ res' = AVB_IO_RESULT_OK)
             => WroteGuidString]_vars

C8_Witness ==
    /\ Returned("get_unique_guid_for_partition")
    /\ args.label_ok /\ args.name = "boot"
    /\ args.guid_buf_size = 36
    /\ res = AVB_IO_RESULT_ERROR_IO
    /\ guid_mem[0] # "#"

\* the documented rendering: groups of raw bytes, each byte as two lowercase
\* hex digits, high nibble first
LowerHex == <<"0", "1", "2", "3", "4", "5", "6", "7",
              "8", "9", "a", "b", "c", "d", "e", "f">>
ByteHex(b) == <<LowerHex[(b \div 16) + 1], LowerHex[(b % 16) + 1]>>
Group1 == <<3, 2, 1, 0>>
Group2 == <<5, 4>>
Group3 == <<7, 6>>
Group4 == <<8, 9>>
Group5 == <<10, 11, 12, 13, 14, 15>>

RECURSIVE GroupHex(_, _)
GroupHex(u, g) ==
    IF g = <<>> THEN <<>> ELSE ByteHex(u[Head(g)]) \o GroupHex(u, Tail(g))

Canonical(u) ==
    GroupHex(u, Group1) \o <<"-">> \o GroupHex(u, Group2) \o <<"-">>
      \o GroupHex(u, Group3) \o <<"-">> \o GroupHex(u, Group4) \o <<"-">>
      \o GroupHex(u, Group5)

\* 00112233-4455-6677-8899-aabbccddeeff
ExampleString ==
    <<"0", "0", "1", "1", "2", "2", "3", "3", "-",
      "4", "4", "5", "5", "-", "6", "6", "7", "7", "-",
      "8", "8", "9", "9", "-",
      "a", "a", "b", "b", "c", "c", "d", "d", "e", "e", "f", "f">>

\* the 36 characters at guid_buf
GuidText == [i \in 1 .. 36 |-> guid_mem[i - 1]]

\* C9: a successful call leaves the 36 characters of the documented
\* permutation: lowercase hex groups of 8-4-4-4-12 from raw bytes [3,2,1,0],
\* [5,4], [7,6], [8,9], [10..15], hyphens at 8, 13, 18 and 23; the bytes
\* 33 22 11 00 55 44 77 66 88 99 AA BB CC DD EE FF give
\* 00112233-4455-6677-8899-aabbccddeeff.
C9_GuidPermutation ==
    (Returned("get_unique_guid_for_partition") /\ res = AVB_IO_RESULT_OK)
    => LET u == gpt[args.name].unique
       IN  /\ GuidText = Canonical(u)
           /\ \A c \in 0 .. 35 :
                IF c \in {8, 13, 18, 23}
                THEN guid_mem[c] = "-"
                ELSE guid_mem[c] \in HexChars
           /\ u = ExampleIdent => GuidText = ExampleString

C9_Witness ==
    /\ Returned("get_unique_guid_for_partition")
    /\ res = AVB_IO_RESULT_OK
    /\ args.name = "boot"
    /\ gpt.boot.unique = ExampleIdent
    /\ GuidText = ExampleString

\* C10: read_rollback_index returns OK and index 0 for every slot, whatever
\* was written to it before; write_rollback_index returns OK and changes
\* nothing that any callback reads.
C10_RollbackStub ==
    [][/\ Returned("read_rollback_index")'
          => /\ res' = AVB_IO_RESULT_OK
             /\ args'.has_out => out' = Stored(0)
       /\ Returned("write_rollback_index")'
          => /\ res' = AVB_IO_RESULT_OK
             /\ UNCHANGED <<disk, guid_mem, heap, lowmem, unlocked,
                            avb_pk, gpt>>]_vars

C10_Witness ==
    /\ Returned("read_rollback_index")
    /\ args.has_out
    /\ rb_written[args.slot] # 0
    /\ res = AVB_IO_RESULT_OK
    /\ out = Stored(0)

============================================================================
